---- MODULE Spec2Model ----
(***************************************************************************)
(* Model of calculate.rs: the batch dispatcher, the aggregation workers,   *)
(* the result channel, the pairwise tree reduction (merge_maps) and the    *)
(* TempStats accumulator.                                                  *)
(*                                                                         *)
(* Bytes are their numeric codes.  An f64 is a record [nan, v]: v is an    *)
(* integer, and arithmetic rounds to nearest-even on MantBits significant  *)
(* bits, as f64 does on 53.                                                *)
(***************************************************************************)
EXTENDS Integers, Sequences, FiniteSets, TLC

\* ------------------------------------------------------------------ bounds
MantBits == 3
MaxLines == 3
MaxBatch == 3
MaxLineLen == 3
MaxObs == 2
MaxFailures == 1

\* ------------------------------------------------------- program constants
num_threads == 8
Delim == 59

\* --------------------------------------------------------------- f64 model
NaN == [nan |-> TRUE, v |-> 0]

F(n) == [nan |-> FALSE, v |-> n]

RECURSIVE Pow2(_)
Pow2(n) == IF n = 0 THEN 1 ELSE 2 * Pow2(n - 1)

Abs(n) == IF n < 0 THEN 0 - n ELSE n

\* the unit in the last place of a magnitude n, starting the search at u
RECURSIVE Ulp(_, _)
Ulp(n, u) == IF n < Pow2(MantBits) * u THEN u ELSE Ulp(n, 2 * u)

RoundMag(n) ==
  LET u == Ulp(n, 1)
      q == n \div u
      r == n % u
  IN  IF 2 * r > u \/ (2 * r = u /\ q % 2 = 1) THEN (q + 1) * u ELSE q * u

\* round-to-nearest, ties-to-even
Round(n) == IF n < 0 THEN 0 - RoundMag(0 - n) ELSE RoundMag(n)

fadd(a, b) == IF a.nan \/ b.nan THEN NaN ELSE F(Round(a.v + b.v))

\* f64::min and f64::max return the other operand when one is NaN
fmin(a, b) == IF a.nan THEN b ELSE IF b.nan THEN a ELSE IF a.v <= b.v THEN a ELSE b

fmax(a, b) == IF a.nan THEN b ELSE IF b.nan THEN a ELSE IF a.v >= b.v THEN a ELSE b

\* the comparison a <= b of f64: false when either operand is NaN
fle(a, b) == ~a.nan /\ ~b.nan /\ a.v <= b.v

\* --------------------------------------------------------------- TempStats
\* TempStats_new with a count of zero
TempStats_new_uncounted(temp) == [min |-> temp, max |-> temp, sum |-> temp, count |-> 0]

TempStats_new(temp) == [min |-> temp, max |-> temp, sum |-> temp, count |-> 1]

\* TempStats_update with min and max exchanged
TempStats_update_swapped(s, temp) ==
  [min |-> fmax(s.min, temp), max |-> fmin(s.max, temp),
   sum |-> fadd(s.sum, temp), count |-> s.count + 1]

TempStats_update(s, temp) ==
  [min |-> fmin(s.min, temp), max |-> fmax(s.max, temp),
   sum |-> fadd(s.sum, temp), count |-> s.count + 1]

\* merge_stats counting the merged accumulator as one observation
merge_stats_count_one(s, stats) ==
  [min |-> fmin(s.min, stats.min), max |-> fmax(s.max, stats.max),
   sum |-> fadd(s.sum, stats.sum), count |-> s.count + 1]

\* merge_stats with the minimum overwritten instead of combined
merge_stats_overwrite_min(s, stats) ==
  [min |-> stats.min, max |-> fmax(s.max, stats.max),
   sum |-> fadd(s.sum, stats.sum), count |-> s.count + stats.count]

\* the and_modify closure of merge_maps
merge_stats(s, stats) ==
  [min |-> fmin(s.min, stats.min), max |-> fmax(s.max, stats.max),
   sum |-> fadd(s.sum, stats.sum), count |-> s.count + stats.count]

\* ------------------------------------------------------------ line parsing
\* a let binding: body(x) with x bound to the value of e, computed once
bind(e, body(_)) == CHOOSE y \in {body(x) : x \in {e}} : TRUE

None == [ok |-> FALSE, val |-> 0]

Some(x) == [ok |-> TRUE, val |-> x]

\* position that finds the last delimiter of the line
position_last(line) ==
  IF \E i \in 1..Len(line) : line[i] = Delim
  THEN Some(CHOOSE i \in 1..Len(line) :
              line[i] = Delim /\ \A j \in (i + 1)..Len(line) : line[j] # Delim)
  ELSE None

\* line.iter().position(|&b| b == b';'), 1-based; None when absent
position(line) ==
  IF \E i \in 1..Len(line) : line[i] = Delim
  THEN Some(CHOOSE i \in 1..Len(line) :
              line[i] = Delim /\ \A j \in 1..(i - 1) : line[j] # Delim)
  ELSE None

\* std::str::from_utf8 on the bytes of the model: codes below 128 are text
from_utf8(bytes) ==
  IF \A i \in 1..Len(bytes) : bytes[i] < 128 THEN Some(bytes) ELSE None

IsWhite(b) == b \in {9, 10, 11, 12, 13, 32}

RECURSIVE trim_start(_)
trim_start(s) ==
  IF s # <<>> /\ IsWhite(Head(s)) THEN trim_start(Tail(s)) ELSE s

RECURSIVE trim_end(_)
trim_end(s) ==
  IF s # <<>> /\ IsWhite(s[Len(s)]) THEN trim_end(SubSeq(s, 1, Len(s) - 1)) ELSE s

trim(s) == trim_end(trim_start(s))

IsDigit(b) == b >= 48 /\ b <= 57

Lower(b) == IF b >= 65 /\ b <= 90 THEN b + 32 ELSE b

RECURSIVE DecValue(_, _)
DecValue(s, acc) ==
  IF s = <<>> THEN acc ELSE DecValue(Tail(s), 10 * acc + (Head(s) - 48))

\* str::parse::<f64> on the texts of the model: [sign] digits, or nan
\* in any letter case; the decimal value rounds to the nearest f64
parse_f64(s) ==
  LET signed == s # <<>> /\ Head(s) \in {43, 45}
      body   == IF signed THEN Tail(s) ELSE s
      neg    == signed /\ Head(s) = 45
  IN  IF Len(body) = 3 /\ [i \in 1..3 |-> Lower(body[i])] = <<110, 97, 110>>
      THEN Some(NaN)
      ELSE IF body # <<>> /\ \A i \in 1..Len(body) : IsDigit(body[i])
      THEN Some(F(Round(IF neg THEN 0 - DecValue(body, 0) ELSE DecValue(body, 0))))
      ELSE None

\* parse_line with an unparsable value read as 0.0 instead of skipped
parse_line_or_zero(line) ==
  bind(position(line), LAMBDA p :
    IF ~p.ok THEN None
    ELSE bind(from_utf8(SubSeq(line, p.val + 1, Len(line))), LAMBDA temp_str :
           IF ~temp_str.ok THEN None
           ELSE bind(parse_f64(trim(temp_str.val)), LAMBDA temp :
                  Some([city |-> SubSeq(line, 1, p.val - 1),
                        temp |-> IF temp.ok THEN temp.val ELSE F(0)]))))

\* one iteration of the loop of process_lines: the (city, temp) it folds,
\* or None when the line is skipped
parse_line(line) ==
  bind(position(line), LAMBDA p :
    IF ~p.ok THEN None
    ELSE bind(from_utf8(SubSeq(line, p.val + 1, Len(line))), LAMBDA temp_str :
           IF ~temp_str.ok THEN None
           ELSE bind(trim(temp_str.val), LAMBDA trimmed :
                  bind(parse_f64(trimmed), LAMBDA temp :
                    IF ~temp.ok THEN None
                    ELSE Some([city |-> SubSeq(line, 1, p.val - 1),
                               temp |-> temp.val])))))

\* the lines of the pipeline's inputs:
\* "A;7", "A;2", "B; NaN", "A2" (no delimiter)
Lines == {<<65, 59, 55>>, <<65, 59, 50>>, <<66, 59, 32, 78, 97, 78>>, <<65, 50>>}

\* the bytes of the aggregator's inputs: ' ', '2', ';', 'A' and 0xFF, which
\* is never part of valid UTF-8
Bytes == {32, 50, 59, 65, 255}

\* every line of at most MaxLineLen of these bytes
ByteLines == UNION {[1..n -> Bytes] : n \in 0..MaxLineLen}

EmptyMap == <<>>

\* entry(city).and_modify(update).or_insert_with(new)
entry_update(m, city, temp) ==
  IF city \in DOMAIN m
  THEN [m EXCEPT ![city] = TempStats_update(m[city], temp)]
  ELSE [k \in DOMAIN m \cup {city} |->
          IF k = city THEN TempStats_new(temp) ELSE m[k]]

RECURSIVE process_from(_, _, _)
process_from(lines, i, city_stats) ==
  IF i > Len(lines) THEN city_stats
  ELSE bind(parse_line(lines[i]), LAMBDA r :
         bind(IF r.ok THEN entry_update(city_stats, r.val.city, r.val.temp)
              ELSE city_stats,
              LAMBDA next_stats : process_from(lines, i + 1, next_stats)))

process_lines(lines) == process_from(lines, 1, EmptyMap)

\* merge_pair without the or_insert: the keys of right alone are lost
merge_pair_no_insert(left, right) ==
  [k \in DOMAIN left |->
     IF k \in DOMAIN right THEN merge_stats(left[k], right[k]) ELSE left[k]]

\* the body of a merge worker: fold right into left
merge_pair(left, right) ==
  [k \in DOMAIN left \cup DOMAIN right |->
     IF k \in DOMAIN left /\ k \in DOMAIN right THEN merge_stats(left[k], right[k])
     ELSE IF k \in DOMAIN left THEN left[k] ELSE right[k]]

\* maps.pop().unwrap_or_default()
pop_or_default(ms) == IF ms = <<>> THEN EmptyMap ELSE ms[Len(ms)]

\* one round of merge_maps as a function of the collection: the unpaired
\* map first, then the merged pairs in the order their handles are joined
merge_round(ms) ==
  LET n == Len(ms)
  IN  (IF n % 2 = 1 THEN <<ms[n]>> ELSE <<>>)
      \o [i \in 1..(n \div 2) |-> merge_pair(ms[2 * i - 1], ms[2 * i])]

\* merge_maps as a function of the collection it is given
RECURSIVE merge_maps(_)
merge_maps(ms) ==
  IF Len(ms) > 1 THEN merge_maps(merge_round(ms)) ELSE pop_or_default(ms)

\* the lines among the items of a stream (the Ok results)
RECURSIVE ok_lines(_)
ok_lines(items) ==
  IF items = <<>> THEN <<>>
  ELSE (IF Head(items).ok THEN <<Head(items).val>> ELSE <<>>) \o ok_lines(Tail(items))

\* the values process_lines folds under key city, in line order
RECURSIVE observations(_, _)
observations(lines, city) ==
  IF lines = <<>> THEN <<>>
  ELSE LET r == parse_line(Head(lines))
       IN  (IF r.ok /\ r.val.city = city THEN <<r.val.temp>> ELSE <<>>)
           \o observations(Tail(lines), city)

\* the sum of the magnitudes of a sequence of f64 (NaN counts for nothing)
RECURSIVE abs_total(_)
abs_total(obs) ==
  IF obs = <<>> THEN 0
  ELSE (IF Head(obs).nan THEN 0 ELSE Abs(Head(obs).v)) + abs_total(Tail(obs))

\* no addition of these values, in any grouping, rounds: every partial sum
\* is an integer of at most MantBits significant bits
sums_exactly(obs) == abs_total(obs) <= Pow2(MantBits)

\* ------------------------------------------------------------ the pipeline
VARIABLES input, batch_size, pos, buffer, handles, sender_open, channel,
          partial_maps, maps, next_round, merge_handles, chunk, joined,
          final_map, pc, round, alg

vars == <<input, batch_size, pos, buffer, handles, sender_open, channel,
          partial_maps, maps, next_round, merge_handles, chunk, joined,
          final_map, pc, round, alg>>

\* the variables of the pipeline
pipeline == <<input, batch_size, pos, buffer, handles, sender_open, channel,
              partial_maps, maps, next_round, merge_handles, chunk, joined,
              final_map, pc, round>>

\* the items line_stream.next() yields: Ok(line) or Err(e)
OkLine(l) == [ok |-> TRUE, val |-> l]

IoErr == [ok |-> FALSE, val |-> <<>>]

Items == {OkLine(l) : l \in Lines} \cup {IoErr}

Inputs == UNION {[1..n -> Items] : n \in 0..MaxLines}

\* one more batch than num_threads, every line "A;2"
WideInput == [i \in 1..(num_threads + 1) |-> OkLine(<<65, 59, 50>>)]

\* the state of main before the first line is read
Start ==
  /\ pos = 0
  /\ buffer = <<>>
  /\ handles = <<>>
  /\ sender_open = TRUE
  /\ channel = <<>>
  /\ partial_maps = <<>>
  /\ maps = <<>>
  /\ next_round = <<>>
  /\ merge_handles = <<>>
  /\ chunk = 0
  /\ joined = 0
  /\ final_map = EmptyMap
  /\ pc = "read"
  /\ round = 0

\* alg holds the accumulators of the merge-algebra runs (SpecAlgebra); the
\* pipeline leaves it alone
Init ==
  /\ \/ input \in Inputs /\ batch_size \in 1..MaxBatch
     \/ input = WideInput /\ batch_size = 1
  /\ Start
  /\ alg = [stage |-> "idle"]

\* thread::spawn(move || { process_lines(&batch); send }) ; handles.push
spawn_worker(hs, batch) == Append(hs, [batch |-> batch, state |-> "running", result |-> EmptyMap])

\* batch_full with > in place of >=
batch_full_late(buf, size) == Len(buf) > size

\* buffer.len() >= batch_size
batch_full(buf, size) == Len(buf) >= size

\* ReadLine that detaches the batch and leaves the lines in the buffer
ReadLine_no_reset ==
  /\ pc = "read"
  /\ pos < Len(input)
  /\ pos' = pos + 1
  /\ LET line_result == input[pos + 1]
     IN  IF line_result.ok
         THEN LET pushed == Append(buffer, line_result.val)
              IN  /\ buffer' = pushed
                  /\ IF batch_full(pushed, batch_size)
                     THEN handles' = spawn_worker(handles, pushed)
                     ELSE UNCHANGED handles
         ELSE UNCHANGED <<buffer, handles>>
  /\ UNCHANGED <<alg, round, input, batch_size, sender_open, channel, partial_maps,
                 maps, next_round, merge_handles, chunk, joined, final_map, pc>>

\* one iteration of the while-let loop over line_stream
ReadLine ==
  /\ pc = "read"
  /\ pos < Len(input)
  /\ pos' = pos + 1
  /\ LET line_result == input[pos + 1]
     IN  IF line_result.ok
         THEN LET pushed == Append(buffer, line_result.val)
              IN  IF batch_full(pushed, batch_size)
                  THEN /\ buffer' = <<>>
                       /\ handles' = spawn_worker(handles, pushed)
                  ELSE /\ buffer' = pushed
                       /\ UNCHANGED handles
         ELSE UNCHANGED <<buffer, handles>>
  /\ UNCHANGED <<alg, round, input, batch_size, sender_open, channel, partial_maps, maps,
                 next_round, merge_handles, chunk, joined, final_map, pc>>

\* line_stream.next() returns None: the loop ends
EndOfStream ==
  /\ pc = "read"
  /\ pos = Len(input)
  /\ pc' = "rest"
  /\ UNCHANGED <<alg, round, input, batch_size, pos, buffer, handles, sender_open, channel,
                 partial_maps, maps, next_round, merge_handles, chunk, joined,
                 final_map>>

\* SubmitRemaining without the submission: the remaining lines stay behind
SubmitRemaining_no_flush ==
  /\ pc = "rest"
  /\ pc' = "drop"
  /\ UNCHANGED <<alg, round, input, batch_size, pos, buffer, handles, sender_open,
                 channel, partial_maps, maps, next_round, merge_handles, chunk,
                 joined, final_map>>

\* SubmitRemaining without the test of buffer.is_empty()
SubmitRemaining_unchecked ==
  /\ pc = "rest"
  /\ handles' = Append(handles, [batch |-> buffer, state |-> "running",
                                  result |-> <<>>])
  /\ buffer' = <<>>
  /\ pc' = "drop"
  /\ UNCHANGED <<alg, round, input, batch_size, pos, sender_open, channel, partial_maps,
                 maps, next_round, merge_handles, chunk, joined, final_map>>

\* "Handle remaining lines"
SubmitRemaining ==
  /\ pc = "rest"
  /\ IF buffer # <<>>
     THEN /\ handles' = spawn_worker(handles, buffer)
          /\ buffer' = <<>>
     ELSE UNCHANGED <<buffer, handles>>
  /\ pc' = "drop"
  /\ UNCHANGED <<alg, round, input, batch_size, pos, sender_open, channel, partial_maps,
                 maps, next_round, merge_handles, chunk, joined, final_map>>

\* DropSender that keeps the sender of main
DropSender_kept ==
  /\ pc = "drop"
  /\ pc' = "drain"
  /\ UNCHANGED <<alg, round, input, batch_size, pos, buffer, handles, sender_open,
                 channel, partial_maps, maps, next_round, merge_handles, chunk,
                 joined, final_map>>

\* drop(sender)
DropSender ==
  /\ pc = "drop"
  /\ sender_open' = FALSE
  /\ pc' = "drain"
  /\ UNCHANGED <<alg, round, input, batch_size, pos, buffer, handles, channel, partial_maps,
                 maps, next_round, merge_handles, chunk, joined, final_map>>

\* an aggregation worker runs to completion: process_lines, send, and the
\* drop of thread_sender at the end of the closure
WorkerFinish(i) ==
  /\ pc # "panicked"
  /\ handles[i].state = "running"
  /\ channel' = Append(channel, process_lines(handles[i].batch))
  /\ handles' = [handles EXCEPT ![i].state = "finished",
                                 ![i].result = process_lines(handles[i].batch)]
  /\ UNCHANGED <<alg, round, input, batch_size, pos, buffer, sender_open, partial_maps,
                 maps, next_round, merge_handles, chunk, joined, final_map, pc>>

\* the threads that have panicked so far
failures ==
  Cardinality({i \in 1..Len(handles) : handles[i].state = "panicked"})
  + Cardinality({i \in 1..Len(merge_handles) : merge_handles[i].state = "panicked"})

\* an aggregation worker panics before it sends; unwinding drops thread_sender
WorkerPanic(i) ==
  /\ pc # "panicked"
  /\ failures < MaxFailures
  /\ handles[i].state = "running"
  /\ handles' = [handles EXCEPT ![i].state = "panicked"]
  /\ UNCHANGED <<alg, round, input, batch_size, pos, buffer, sender_open, channel,
                 partial_maps, maps, next_round, merge_handles, chunk, joined,
                 final_map, pc>>

\* every Sender is gone: the one of main and the clone of every worker
disconnected == ~sender_open /\ \A i \in 1..Len(handles) : handles[i].state # "running"

\* receiver.iter().collect(): one message received
Recv ==
  /\ pc = "drain"
  /\ channel # <<>>
  /\ partial_maps' = Append(partial_maps, Head(channel))
  /\ channel' = Tail(channel)
  /\ UNCHANGED <<alg, round, input, batch_size, pos, buffer, handles, sender_open, maps,
                 next_round, merge_handles, chunk, joined, final_map, pc>>

\* receiver.iter() ends: the channel is empty and disconnected; main calls
\* merge_maps(partial_maps)
DrainEnd ==
  /\ pc = "drain"
  /\ channel = <<>>
  /\ disconnected
  /\ maps' = partial_maps
  /\ pc' = "merge_loop"
  /\ UNCHANGED <<alg, round, input, batch_size, pos, buffer, handles, sender_open, channel,
                 partial_maps, next_round, merge_handles, chunk, joined,
                 final_map>>

\* MergeLoop with the test `maps.len() > 0`
MergeLoop_until_empty ==
  /\ pc = "merge_loop"
  /\ IF Len(maps) > 0
     THEN /\ next_round' = <<>>
          /\ merge_handles' = <<>>
          /\ chunk' = 1
          /\ round' = round + 1
          /\ pc' = "merge_spawn"
          /\ UNCHANGED <<final_map, joined>>
     ELSE /\ final_map' = pop_or_default(maps)
          /\ joined' = 0
          /\ pc' = "join"
          /\ UNCHANGED <<next_round, merge_handles, chunk, round>>
  /\ UNCHANGED <<alg, input, batch_size, pos, buffer, handles, sender_open, channel,
                 partial_maps, maps>>

\* the test of `while maps.len() > 1`, and the return of merge_maps; round
\* counts the iterations of the loop, and every merge worker carries the
\* number of the iteration that spawned it
MergeLoop ==
  /\ pc = "merge_loop"
  /\ IF Len(maps) > 1
     THEN /\ next_round' = <<>>
          /\ merge_handles' = <<>>
          /\ chunk' = 1
          /\ round' = round + 1
          /\ pc' = "merge_spawn"
          /\ UNCHANGED <<final_map, joined>>
     ELSE /\ final_map' = pop_or_default(maps)
          /\ joined' = 0
          /\ pc' = "join"
          /\ UNCHANGED <<next_round, merge_handles, chunk, round>>
  /\ UNCHANGED <<alg, input, batch_size, pos, buffer, handles, sender_open, channel,
                 partial_maps, maps>>

\* MergeSpawn that does not carry the unpaired mapping over
MergeSpawn_drop_leftover ==
  /\ pc = "merge_spawn"
  /\ IF 2 * chunk <= Len(maps)
     THEN merge_handles' = Append(merge_handles,
                [left |-> maps[2 * chunk - 1], right |-> maps[2 * chunk],
                 state |-> "running", result |-> EmptyMap, round |-> round])
     ELSE UNCHANGED merge_handles
  /\ UNCHANGED next_round
  /\ IF 2 * chunk + 1 <= Len(maps)
     THEN chunk' = chunk + 1 /\ UNCHANGED <<pc, joined>>
     ELSE chunk' = 0 /\ pc' = "merge_join" /\ joined' = 0
  /\ UNCHANGED <<alg, round, input, batch_size, pos, buffer, handles, sender_open,
                 channel, partial_maps, maps, final_map>>

\* one iteration of `for chunk in maps.chunks(2)`
MergeSpawn ==
  /\ pc = "merge_spawn"
  /\ IF 2 * chunk <= Len(maps)
     THEN /\ merge_handles' = Append(merge_handles,
                [left |-> maps[2 * chunk - 1], right |-> maps[2 * chunk],
                 state |-> "running", result |-> EmptyMap, round |-> round])
          /\ UNCHANGED next_round
     ELSE /\ next_round' = Append(next_round, maps[2 * chunk - 1])
          /\ UNCHANGED merge_handles
  /\ IF 2 * chunk + 1 <= Len(maps)
     THEN chunk' = chunk + 1 /\ UNCHANGED <<pc, joined>>
     ELSE chunk' = 0 /\ pc' = "merge_join" /\ joined' = 0
  /\ UNCHANGED <<alg, round, input, batch_size, pos, buffer, handles, sender_open, channel,
                 partial_maps, maps, final_map>>

\* a merge worker runs to completion
MergeWork(i) ==
  /\ pc # "panicked"
  /\ merge_handles[i].state = "running"
  /\ merge_handles' = [merge_handles EXCEPT
        ![i].state = "finished",
        ![i].result = merge_pair(merge_handles[i].left, merge_handles[i].right)]
  /\ UNCHANGED <<alg, round, input, batch_size, pos, buffer, handles, sender_open, channel,
                 partial_maps, maps, next_round, chunk, joined, final_map, pc>>

\* a merge worker panics
MergeFail(i) ==
  /\ pc # "panicked"
  /\ failures < MaxFailures
  /\ merge_handles[i].state = "running"
  /\ merge_handles' = [merge_handles EXCEPT ![i].state = "panicked"]
  /\ UNCHANGED <<alg, round, input, batch_size, pos, buffer, handles, sender_open, channel,
                 partial_maps, maps, next_round, chunk, joined, final_map, pc>>

\* MergeJoin without the barrier: the round ends at the first join, and the
\* merge workers not yet joined are left behind
MergeJoin_no_barrier ==
  /\ pc = "merge_join"
  /\ joined < Len(merge_handles)
  /\ merge_handles[joined + 1].state = "finished"
  /\ maps' = Append(next_round, merge_handles[joined + 1].result)
  /\ next_round' = <<>>
  /\ merge_handles' = SubSeq(merge_handles, joined + 2, Len(merge_handles))
  /\ joined' = 0
  /\ pc' = "merge_loop"
  /\ UNCHANGED <<alg, round, input, batch_size, pos, buffer, handles, sender_open,
                 channel, partial_maps, chunk, final_map>>

\* one iteration of `for handle in handles` in merge_maps:
\* next_round.push(handle.join().expect("Merge thread failed")),
\* and `maps = next_round` after the last one
MergeJoin ==
  /\ pc = "merge_join"
  /\ joined < Len(merge_handles)
  /\ LET h == merge_handles[joined + 1]
     IN  /\ h.state # "running"
         /\ IF h.state = "panicked"
            THEN /\ pc' = "panicked"
                 /\ UNCHANGED <<maps, next_round, merge_handles, joined>>
            ELSE /\ joined' = joined + 1
                 /\ IF joined + 1 = Len(merge_handles)
                    THEN /\ maps' = Append(next_round, h.result)
                         /\ next_round' = <<>>
                         /\ merge_handles' = <<>>
                         /\ pc' = "merge_loop"
                    ELSE /\ next_round' = Append(next_round, h.result)
                         /\ UNCHANGED <<maps, merge_handles, pc>>
  /\ UNCHANGED <<alg, round, input, batch_size, pos, buffer, handles, sender_open, channel,
                 partial_maps, chunk, final_map>>

\* JoinWorker with the result of join() discarded
JoinWorker_ignore_panic ==
  /\ pc = "join"
  /\ joined < Len(handles)
  /\ handles[joined + 1].state # "running"
  /\ joined' = joined + 1
  /\ UNCHANGED <<alg, round, input, batch_size, pos, buffer, handles, sender_open,
                 channel, partial_maps, maps, next_round, merge_handles, chunk,
                 final_map, pc>>

\* one iteration of `for handle in handles` in main:
\* handle.join().expect("Thread panicked")
JoinWorker ==
  /\ pc = "join"
  /\ joined < Len(handles)
  /\ handles[joined + 1].state # "running"
  /\ IF handles[joined + 1].state = "panicked"
     THEN pc' = "panicked" /\ UNCHANGED <<handles, joined>>
     ELSE /\ handles' = [handles EXCEPT ![joined + 1].state = "joined"]
          /\ joined' = joined + 1
          /\ UNCHANGED pc
  /\ UNCHANGED <<alg, round, input, batch_size, pos, buffer, sender_open, channel,
                 partial_maps, maps, next_round, merge_handles, chunk, final_map>>

\* Return without the wait for the join loop
Return_early ==
  /\ pc = "join"
  /\ pc' = "done"
  /\ UNCHANGED <<alg, round, input, batch_size, pos, buffer, handles, sender_open,
                 channel, partial_maps, maps, next_round, merge_handles, chunk,
                 joined, final_map>>

\* Ok(())
Return ==
  /\ pc = "join"
  /\ joined = Len(handles)
  /\ pc' = "done"
  /\ UNCHANGED <<alg, round, input, batch_size, pos, buffer, handles, sender_open, channel,
                 partial_maps, maps, next_round, merge_handles, chunk, joined,
                 final_map>>

Next ==
  \/ ReadLine
  \/ EndOfStream
  \/ SubmitRemaining
  \/ DropSender
  \/ \E i \in 1..Len(handles) : WorkerFinish(i)
  \/ \E i \in 1..Len(handles) : WorkerPanic(i)
  \/ Recv
  \/ DrainEnd
  \/ MergeLoop
  \/ MergeSpawn
  \/ \E i \in 1..Len(merge_handles) : MergeWork(i)
  \/ \E i \in 1..Len(merge_handles) : MergeFail(i)
  \/ MergeJoin
  \/ JoinWorker
  \/ Return

Spec == Init /\ [][Next]_vars

\* ------------------------------------------- the aggregator on raw lines
\* the pipeline on two lines: any line of ByteLines and the line "A;7", in
\* either order, as one batch or as two
InitParse ==
  /\ \E l \in ByteLines :
        input \in {<<OkLine(l), OkLine(<<65, 59, 55>>)>>,
                   <<OkLine(<<65, 59, 55>>), OkLine(l)>>}
  /\ batch_size \in 1..2
  /\ Start
  /\ alg = [stage |-> "idle"]

SpecParse == InitParse /\ [][Next]_vars

\* ------------------------------------------------------ the merge algebra
\* the values observed: 2.0, 7.0 and NaN
ObsValues == {F(2), F(7), NaN}

\* the non-empty observation sequences of at most MaxObs values
ObsSeqs == UNION {[1..n -> ObsValues] : n \in 1..MaxObs}

\* the accumulator built by new on the first value and update on the others
RECURSIVE update_all(_, _)
update_all(s, obs) ==
  IF obs = <<>> THEN s ELSE update_all(TempStats_update(s, Head(obs)), Tail(obs))

accumulate(obs) == update_all(TempStats_new(Head(obs)), Tail(obs))

\* three observation sequences are drawn
InitAlgebra ==
  /\ input = <<>> /\ batch_size = 1
  /\ Start
  /\ \E a \in ObsSeqs, b \in ObsSeqs, c \in ObsSeqs :
        alg = [stage |-> "drawn", a |-> a, b |-> b, c |-> c]

\* new/update over each sequence
AlgBuild ==
  /\ alg.stage = "drawn"
  /\ alg' = [stage |-> "built", a |-> alg.a, b |-> alg.b, c |-> alg.c,
             sa |-> accumulate(alg.a), sb |-> accumulate(alg.b),
             sc |-> accumulate(alg.c)]
  /\ UNCHANGED pipeline

\* the merges of the accumulators, in both orders and both groupings
AlgMerge ==
  /\ alg.stage = "built"
  /\ alg' = [stage |-> "merged", a |-> alg.a, b |-> alg.b, c |-> alg.c,
             ab |-> merge_stats(alg.sa, alg.sb),
             ba |-> merge_stats(alg.sb, alg.sa),
             ab_c |-> merge_stats(merge_stats(alg.sa, alg.sb), alg.sc),
             a_bc |-> merge_stats(alg.sa, merge_stats(alg.sb, alg.sc))]
  /\ UNCHANGED pipeline

NextAlgebra == AlgBuild \/ AlgMerge

SpecAlgebra == InitAlgebra /\ [][NextAlgebra]_vars

\* ------------------------------------------------------------- properties
\* the lines read so far
LinesRead == ok_lines(SubSeq(input, 1, pos))

\* a single sequential fold of every line of the input
SequentialFold == process_lines(ok_lines(input))

\* the Partial Mappings of the submitted batches, in submission order
SubmittedMaps == [i \in 1..Len(handles) |-> process_lines(handles[i].batch)]

\* mapping m agrees with mapping ref on the keys and on min, max and count of
\* every key, and on sum for the keys whose observations add without rounding
agrees_up_to_rounding(m, ref) ==
  /\ DOMAIN m = DOMAIN ref
  /\ \A k \in DOMAIN ref :
        /\ m[k].min = ref[k].min
        /\ m[k].max = ref[k].max
        /\ m[k].count = ref[k].count
        /\ sums_exactly(observations(ok_lines(input), k)) => m[k].sum = ref[k].sum

\* C1 as stated: the Final Mapping equals the single sequential fold of all
\* well-formed lines, for every input and every batch_size (min, max, sum and
\* count of every key, and no other key).
C1_FinalEqualsSequentialFold == pc = "done" => final_map = SequentialFold

\* C1 amended: the Final Mapping has the keys of the sequential fold and, for
\* every key, its min, max and count; its sum is that of the sequential fold
\* when no addition rounds, and may differ from it by rounding otherwise.
C1_FinalAgreesWithSequentialFold ==
  pc = "done" => agrees_up_to_rounding(final_map, SequentialFold)

\* C1 witness: three well-formed lines of one key, dispatched as a full batch
\* of two and a remaining batch of one, aggregated and reduced
C1_Witness ==
  /\ pc = "done"
  /\ batch_size = 2
  /\ Len(handles) = 2
  /\ \E k \in DOMAIN final_map : final_map[k].count = 3

\* C2 as stated: the Final Mapping is the same in every interleaving, so it
\* is the one of the interleaving in which the Partial Mappings arrive in
\* submission order.
C2_FinalIndependentOfArrivalOrder ==
  pc = "done" => final_map = merge_maps(SubmittedMaps)

\* C2 amended: in every interleaving the Final Mapping has the same keys and
\* the same min, max and count for every key; the sum of a key is the same
\* when no addition rounds, and depends on the arrival order otherwise.
C2_FinalAgreesAcrossArrivalOrders ==
  pc = "done" => agrees_up_to_rounding(final_map, merge_maps(SubmittedMaps))

\* C2 witness: three workers whose Partial Mappings arrived in another order
\* than they were submitted, with another Final Mapping for it
C2_Witness ==
  /\ pc = "done"
  /\ Len(handles) = 3
  /\ partial_maps # SubmittedMaps
  /\ final_map # merge_maps(SubmittedMaps)

\* the lines of the submitted batches, in submission order
RECURSIVE submitted_lines(_)
submitted_lines(hs) ==
  IF hs = <<>> THEN <<>> ELSE Head(hs).batch \o submitted_lines(Tail(hs))

\* C3: every line read is in exactly one submitted batch or still in the
\* buffer, in reading order; when dispatch is finished the buffer is empty and
\* the submitted batches, concatenated in submission order, are the lines of
\* the input.
C3_EveryLineInOneBatch ==
  /\ submitted_lines(handles) \o buffer = LinesRead
  /\ pc \notin {"read", "rest"} =>
        buffer = <<>> /\ submitted_lines(handles) = ok_lines(input)

\* C3 witness: dispatch is finished with a full batch and a shorter last one
C3_Witness ==
  /\ pc = "drop"
  /\ Len(handles) = 2
  /\ Len(handles[1].batch) = batch_size
  /\ Len(handles[2].batch) < batch_size

\* a read of the line stream has returned an error
error_read == \E i \in 1..pos : ~input[i].ok

\* C4: once a read of the stream has failed the driver aborts: it does not
\* go on to merge the Partial Mappings of the lines it read, nor return Ok.
C4_StreamErrorIsFatal ==
  error_read => pc \notin {"merge_loop", "merge_spawn", "merge_join", "join", "done"}

\* the aggregation workers started and not yet finished
running_workers == {i \in 1..Len(handles) : handles[i].state = "running"}

\* C6: at most num_threads aggregation workers are running at any moment.
C6_WorkersBoundedByNumThreads == Cardinality(running_workers) <= num_threads

\* C8: for an empty input stream no worker is spawned, nothing is sent or
\* drained, no merge round runs, merge_maps returns the empty mapping and the
\* driver does not fail.
C8_EmptyInput ==
  input = <<>> =>
    /\ handles = <<>>
    /\ channel = <<>> /\ partial_maps = <<>> /\ maps = <<>>
    /\ merge_handles = <<>>
    /\ final_map = EmptyMap
    /\ pc \notin {"merge_spawn", "merge_join", "panicked"}

\* C8 witness: the driver has returned on the empty input
C8_Witness == input = <<>> /\ pc = "done"

\* the steps of the main thread
MainStep ==
  \/ ReadLine \/ EndOfStream \/ SubmitRemaining \/ DropSender \/ Recv
  \/ DrainEnd \/ MergeLoop \/ MergeSpawn \/ MergeJoin \/ JoinWorker \/ Return

\* the termination of aggregation worker i, one way or the other
WorkerEnds(i) == i \in 1..Len(handles) /\ (WorkerFinish(i) \/ WorkerPanic(i))

\* the termination of merge worker i, one way or the other
MergeWorkerEnds(i) == i \in 1..Len(merge_handles) /\ (MergeWork(i) \/ MergeFail(i))

\* the scheduler runs every thread that can take a step: main, and every
\* spawned thread until its closure returns or unwinds
\* the inputs of the fair behaviours: up to MaxLines lines "A;7" or "A;2"
FairInputs ==
  UNION {[1..n -> {OkLine(<<65, 59, 55>>), OkLine(<<65, 59, 50>>)}] : n \in 0..MaxLines}

\* two more batches than MaxLines, every line "A;2": three merge rounds
FairWideInput == [i \in 1..(MaxLines + 2) |-> OkLine(<<65, 59, 50>>)]

FairInit ==
  /\ \/ input \in FairInputs /\ batch_size \in 1..MaxBatch
     \/ input = FairWideInput /\ batch_size = 1
  /\ Start
  /\ alg = [stage |-> "idle"]

FairSpec == FairInit /\ [][Next]_vars /\ WF_vars(Next)

\* an aggregation worker has panicked before sending
worker_panicked == \E i \in 1..Len(handles) : handles[i].state = "panicked"

\* C5: when an aggregation worker panics before it sends, the driver does not
\* wait forever on the channel and ends in a failure (its own panic); it never
\* returns Ok with that worker's batch missing.
C5_WorkerPanicFailsPipeline ==
  /\ [](pc = "done" => ~worker_panicked)
  /\ worker_panicked ~> (pc = "panicked")

\* C5 witness: the drain has ended without the panicked worker's mapping and
\* main has panicked at the join of that worker
C5_Witness ==
  /\ pc = "panicked"
  /\ merge_handles = <<>>
  /\ joined < Len(handles)
  /\ handles[joined + 1].state = "panicked"
  /\ Len(partial_maps) < Len(handles)

\* a line is well-formed: it has a delimiter, and the segment after the first
\* one is valid text that, trimmed, parses as a number
well_formed(line) ==
  \E p \in 1..Len(line) :
    /\ line[p] = Delim
    /\ \A j \in 1..(p - 1) : line[j] # Delim
    /\ from_utf8(SubSeq(line, p + 1, Len(line))).ok
    /\ parse_f64(trim(SubSeq(line, p + 1, Len(line)))).ok

\* C7: the Partial Mapping a worker produced for its batch is the Partial
\* Mapping of that batch with the malformed lines removed (a malformed line
\* adds no entry and changes no statistics).
C7_LenientParsing ==
  \A i \in 1..Len(handles) :
    handles[i].state \in {"finished", "joined"} =>
      handles[i].result = process_lines(SelectSeq(handles[i].batch, well_formed))

\* C7 witness: a worker has aggregated a batch of a line whose value segment
\* is not valid text and a well-formed line
C7_Witness ==
  \E i \in 1..Len(handles) :
    /\ handles[i].state = "finished"
    /\ Len(handles[i].batch) = 2
    /\ position(handles[i].batch[1]).ok
    /\ ~well_formed(handles[i].batch[1])
    /\ well_formed(handles[i].batch[2])
    /\ handles[i].result = process_lines(<<handles[i].batch[2]>>)

\* two accumulators agree on min, max and count
agree_but_sum(s, t) == s.min = t.min /\ s.max = t.max /\ s.count = t.count

\* C9 as stated: the merge is commutative and associative, and merging the
\* accumulators of two observation sequences gives the accumulator built by
\* new/update over their concatenation, in either order.
C9_MergeAlgebra ==
  alg.stage = "merged" =>
    /\ alg.ab = alg.ba
    /\ alg.ab_c = alg.a_bc
    /\ alg.ab = accumulate(alg.a \o alg.b)
    /\ alg.ab = accumulate(alg.b \o alg.a)

\* C9 amended: the merge is commutative; it is associative, and equal to the
\* accumulator of the concatenation in either order, in min, max and count,
\* and in sum when no addition of the observations rounds.
C9_MergeAlgebraUpToRounding ==
  alg.stage = "merged" =>
    /\ alg.ab = alg.ba
    /\ agree_but_sum(alg.ab_c, alg.a_bc)
    /\ agree_but_sum(alg.ab, accumulate(alg.a \o alg.b))
    /\ agree_but_sum(alg.ab, accumulate(alg.b \o alg.a))
    /\ sums_exactly(alg.a \o alg.b \o alg.c) =>
          /\ alg.ab_c = alg.a_bc
          /\ alg.ab = accumulate(alg.a \o alg.b)
          /\ alg.ab = accumulate(alg.b \o alg.a)

\* C9 witness: accumulators built by new and update have been merged, and
\* the two groupings of three of them differ (in sum)
C9_Witness ==
  /\ alg.stage = "merged"
  /\ Len(alg.a) = 2 /\ Len(alg.b) = 2
  /\ alg.ab_c # alg.a_bc
  /\ agree_but_sum(alg.ab_c, alg.a_bc)

\* the accumulators of a mapping, and of a sequence of mappings
stats_of(m) == {m[k] : k \in DOMAIN m}

stats_in(ms) == UNION {stats_of(ms[i]) : i \in 1..Len(ms)}

\* every accumulator of every Partial Mapping, of every mapping of the
\* reduction and of the Final Mapping
all_stats ==
  stats_in(channel) \cup stats_in(partial_maps) \cup stats_in(maps)
  \cup stats_in(next_round) \cup stats_of(final_map)
  \cup UNION {stats_of(handles[i].result) : i \in 1..Len(handles)}
  \cup UNION {stats_of(merge_handles[i].left) \cup stats_of(merge_handles[i].right)
              \cup stats_of(merge_handles[i].result) : i \in 1..Len(merge_handles)}

C11_AllJoinedAtReturn ==
  pc = "done" =>
    /\ joined = Len(handles)
    /\ \A i \in 1..Len(handles) : handles[i].state = "joined"

\* C11 witness: the driver has returned after it spawned and joined three
\* workers
C11_Witness ==
  /\ pc = "done"
  /\ Len(handles) = 3
  /\ \A i \in 1..3 : handles[i].state = "joined"

\* main is inside merge_maps(partial_maps)
in_merge == pc \in {"merge_loop", "merge_spawn", "merge_join"}

\* C12: while the Merge Reducer works on the collection, every aggregation
\* worker has been joined, the channel was closed after the last batch was
\* submitted, and the collection drained holds one Partial Mapping per
\* submitted batch.
C12_MergeAfterJoin ==
  in_merge =>
    /\ \A i \in 1..Len(handles) : handles[i].state = "joined"
    /\ ~sender_open /\ buffer = <<>> /\ pos = Len(input)
    /\ Len(partial_maps) = Len(handles)

\* C13: the rounds of merge_maps are separated by a barrier. Every merge
\* worker that is spawned and not yet joined belongs to the current round and
\* works on a pair of the current round's collection; when the loop condition
\* reads the collection of the next round, and at any point outside the loop
\* body, no merge worker is left unjoined.
C13_RoundBarrier ==
  /\ \A j \in 1..Len(merge_handles) :
        /\ merge_handles[j].round = round
        /\ 2 * j <= Len(maps)
        /\ merge_handles[j].left = maps[2 * j - 1]
        /\ merge_handles[j].right = maps[2 * j]
  /\ pc \notin {"merge_spawn", "merge_join", "panicked"} => merge_handles = <<>>
  /\ pc \in {"merge_spawn", "merge_join"} => round >= 1
  /\ pc = "merge_join" => joined < Len(merge_handles)

\* C13 witness: the worker of the second round is running, spawned on the
\* leftover and the merged mapping of the first round
C13_Witness ==
  /\ pc = "merge_join"
  /\ round = 2
  /\ Len(partial_maps) = 3
  /\ Len(merge_handles) = 1
  /\ merge_handles[1].state = "running"
  /\ merge_handles[1].left = partial_maps[3]
  /\ merge_handles[1].right = merge_pair(partial_maps[1], partial_maps[2])

\* the mappings the merge workers hs were given, in spawning order
RECURSIVE worker_inputs(_)
worker_inputs(hs) ==
  IF hs = <<>> THEN <<>>
  ELSE <<Head(hs).left, Head(hs).right>> \o worker_inputs(Tail(hs))

\* the results of the merge workers hs, in spawning order
RECURSIVE worker_results(_)
worker_results(hs) ==
  IF hs = <<>> THEN <<>> ELSE <<Head(hs).result>> \o worker_results(Tail(hs))

\* the unpaired mapping of the current collection, if its length is odd
leftover == IF Len(maps) % 2 = 1 THEN <<maps[Len(maps)]>> ELSE <<>>

\* C14: once the pairs of a round are handed out, the inputs of the pair
\* workers in spawning order, followed by the leftover when the count is odd,
\* are the mappings of the current collection, each exactly once and in
\* place; the leftover sits in next_round unchanged, followed by the results
\* of the workers joined so far; while the pairs are being handed out, the
\* ones handed out so far are the first mappings of the collection.
C14_EachMappingConsumedOnce ==
  /\ pc = "merge_spawn" =>
        /\ worker_inputs(merge_handles) = SubSeq(maps, 1, 2 * (chunk - 1))
        /\ next_round = <<>>
  /\ pc = "merge_join" =>
        /\ worker_inputs(merge_handles) \o leftover = maps
        /\ next_round = leftover \o worker_results(SubSeq(merge_handles, 1, joined))
  /\ pc = "merge_loop" /\ round >= 1 => Len(maps) >= 1

\* C14 witness: a round over three mappings, two of them given to the one
\* pair worker and the third, not empty, carried into next_round
C14_Witness ==
  /\ pc = "merge_join"
  /\ Len(maps) = 3
  /\ Len(merge_handles) = 1
  /\ merge_handles[1].left = maps[1] /\ merge_handles[1].right = maps[2]
  /\ next_round = <<maps[3]>>
  /\ maps[3] # EmptyMap
  /\ maps[3] # maps[1]

\* the least integer not below n / d
ceil_div(n, d) == (n + d - 1) \div d

\* C15: no empty batch is ever submitted and no batch has more than
\* batch_size lines; when dispatch is finished on an input of n lines, exactly
\* ceil(n / batch_size) batches were submitted, every batch but the last has
\* exactly batch_size lines and the last has the n - (count - 1) * batch_size
\* lines that remain, which is batch_size when n is a multiple of batch_size.
C15_BatchCount ==
  LET n == Len(ok_lines(input))
      count == Len(handles)
  IN  /\ \A i \in 1..count : Len(handles[i].batch) \in 1..batch_size
      /\ pc \notin {"read", "rest"} =>
            /\ count = ceil_div(n, batch_size)
            /\ \A i \in 1..(count - 1) : Len(handles[i].batch) = batch_size
            /\ count >= 1 => Len(handles[count].batch) = n - (count - 1) * batch_size

\* C15 witness: dispatch is finished on a number of lines that is a multiple
\* of batch_size >= 2: every batch is full and there is no trailing batch
C15_Witness ==
  /\ pc = "drop"
  /\ batch_size >= 2
  /\ Len(handles) >= 1
  /\ Len(ok_lines(input)) = Len(handles) * batch_size
  /\ \A i \in 1..Len(handles) : Len(handles[i].batch) = batch_size

\* a step detaches a batch: a worker is spawned on it
detaches == Len(handles') > Len(handles)

\* C16: the buffer holds fewer than batch_size lines whenever main is between
\* two steps; the push that brings it to batch_size detaches it in the same
\* step, the detached batch is the buffer with that line and has at most
\* batch_size lines, and the buffer is empty afterwards; the batch of a worker
\* never changes after the detach, whatever is appended to the buffer later.
C16_BufferDetach ==
  /\ [](Len(buffer) < batch_size)
  /\ [][/\ detaches =>
              /\ Len(handles') = Len(handles) + 1
              /\ buffer' = <<>>
              /\ handles'[Len(handles')].batch =
                    IF pc = "read" THEN Append(buffer, input[pos + 1].val) ELSE buffer
              /\ Len(handles'[Len(handles')].batch) <= batch_size
        /\ (pc = "read" /\ pos' = pos + 1 /\ input[pos + 1].ok
              /\ Len(buffer) + 1 = batch_size) => detaches
        /\ (~detaches /\ buffer' # buffer) =>
              pc = "read" /\ buffer' = Append(buffer, input[pos + 1].val)
        /\ \A i \in 1..Len(handles) : handles'[i].batch = handles[i].batch]_vars

\* C16 witness: a full batch of two lines was detached and a third line has
\* been appended to the buffer since; the batch still holds the first two
C16_Witness ==
  /\ pc = "read"
  /\ batch_size = 2
  /\ Len(input) = 3
  /\ Len(handles) = 1
  /\ handles[1].batch = ok_lines(SubSeq(input, 1, 2))
  /\ buffer = ok_lines(SubSeq(input, 3, 3))
  /\ Len(buffer) = 1

\* the least k with 2^k >= n, and 0 for n <= 1
ceil_log2(n) ==
  IF n <= 1 THEN 0
  ELSE CHOOSE k \in 1..n : Pow2(k) >= n /\ Pow2(k - 1) < n

\* merge_maps has returned to main
merge_returned == pc \in {"join", "done"}

\* C17: with N the number of mappings given to merge_maps, the collection at
\* the loop test after k rounds has ceil(N / 2^k) mappings (each round takes
\* n > 1 mappings to ceil(n / 2)); when merge_maps has returned it has run
\* exactly ceil(log2 N) rounds (none for N <= 1) and one mapping is left when
\* N >= 1; and merge_maps, once called, always comes to its end: it returns,
\* or it fails at the join of a merge worker that panicked.
C17_MergeTerminates ==
  /\ [](pc = "merge_loop" => Len(maps) = ceil_div(Len(partial_maps), Pow2(round)))
  /\ [](merge_returned =>
          /\ round = ceil_log2(Len(partial_maps))
          /\ Len(maps) = IF Len(partial_maps) >= 1 THEN 1 ELSE 0)
  /\ in_merge ~> (merge_returned \/ pc = "panicked")

\* C17 witness: merge_maps has returned one mapping from five, after three
\* rounds of 5, 3 and 2 mappings
C17_Witness ==
  /\ pc = "done"
  /\ Len(partial_maps) = 5
  /\ round = 3
  /\ Len(maps) = 1

\* the most aggregation workers a fair behaviour spawns
MaxWorkers == MaxLines + 2

\* aggregation worker i has been spawned and has not ended
running(i) == i <= Len(handles) /\ handles[i].state = "running"

\* aggregation worker i has sent its Partial Mapping
has_sent(i) == i <= Len(handles) /\ handles[i].state \in {"finished", "joined"}

\* C18: on a finite stream without read errors, unless a thread panics: no
\* state before the return is a deadlock; a running worker can always send
\* (the channel is unbounded) and eventually has sent; the drain eventually
\* ends and merge_maps is called; and the driver eventually returns Ok.
C18_PipelineCompletes ==
  /\ [](pc \notin {"done", "panicked"} => ENABLED Next)
  /\ [](\A i \in 1..Len(handles) :
          (running(i) /\ pc # "panicked") => ENABLED WorkerFinish(i))
  /\ \A i \in 1..MaxWorkers : running(i) ~> (has_sent(i) \/ failures > 0)
  /\ (pc = "drain") ~> (pc = "merge_loop")
  /\ <>(pc = "done" \/ failures > 0)

\* C18 witness: the driver has returned after three workers or more sent
\* their Partial Mappings and the drain collected them all
C18_Witness ==
  /\ pc = "done"
  /\ Len(handles) >= 3
  /\ Len(partial_maps) = Len(handles)
  /\ \A i \in 1..Len(handles) : has_sent(i)
  /\ failures = 0

\* the sum of count over the accumulators of mapping m
RECURSIVE count_over(_, _)
count_over(m, keys) ==
  IF keys = {} THEN 0
  ELSE LET k == CHOOSE x \in keys : TRUE
       IN  m[k].count + count_over(m, keys \ {k})

count_total(m) == count_over(m, DOMAIN m)

\* the sum of count over the accumulators of all mappings of collection ms
RECURSIVE total_of(_)
total_of(ms) == IF ms = <<>> THEN 0 ELSE count_total(Head(ms)) + total_of(Tail(ms))

\* the number of well-formed lines among lines
well_formed_count(lines) == Len(SelectSeq(lines, well_formed))

\* the number of well-formed lines in the batches of the workers hs that sent
\* their Partial Mapping
RECURSIVE received_count(_)
received_count(hs) ==
  IF hs = <<>> THEN 0
  ELSE (IF Head(hs).state \in {"finished", "joined"}
        THEN well_formed_count(Head(hs).batch) ELSE 0)
       + received_count(Tail(hs))

delims(line) == Cardinality({i \in 1..Len(line) : line[i] = Delim})

\* the number of bytes of line before its first delimiter
key_len(line) ==
  CHOOSE n \in 0..Len(line) :
    /\ \A j \in 1..n : line[j] # Delim
    /\ n < Len(line) => line[n + 1] = Delim

\* the bytes before the first delimiter, and the bytes after it
key_segment(line) == SubSeq(line, 1, key_len(line))

value_segment(line) == SubSeq(line, key_len(line) + 2, Len(line))

\* batch b without its j-th line
without(b, j) == SubSeq(b, 1, j - 1) \o SubSeq(b, j + 1, Len(b))

\* C20: the Partial Mapping of a batch has, as keys, exactly the bytes before
\* the first ';' of its well-formed lines, untrimmed and possibly empty, each
\* with as many observations as lines have that key; the observation of a
\* line is its whole segment after the first ';', trimmed and parsed; a line
\* with a second ';' is skipped; and a line that starts with ';' followed by
\* a number is counted under the empty key.
C20_SplitAtFirstDelimiter ==
  \A i \in 1..Len(handles) :
    has_sent(i) =>
      LET b == handles[i].batch
          r == handles[i].result
          good == {j \in 1..Len(b) : well_formed(b[j])}
      IN  /\ DOMAIN r = {key_segment(b[j]) : j \in good}
          /\ \A k \in DOMAIN r :
                r[k].count = Cardinality({j \in good : key_segment(b[j]) = k})
          /\ \A j \in good :
                LET temp == parse_f64(trim(value_segment(b[j]))).val
                    s == r[key_segment(b[j])]
                IN  s.count = 1 => s.min = temp /\ s.max = temp /\ s.sum = temp
          /\ \A j \in 1..Len(b) :
                delims(b[j]) >= 2 => j \notin good /\ r = process_lines(without(b, j))
          /\ \A j \in 1..Len(b) :
                (/\ b[j] # <<>>
                 /\ b[j][1] = Delim
                 /\ from_utf8(Tail(b[j])).ok
                 /\ parse_f64(trim(Tail(b[j]))).ok) =>
                  <<>> \in DOMAIN r /\ r[<<>>].count >= 1

\* C20 witness: a worker has aggregated the batch of ";2" and "A;7": the
\* first line is counted under the empty key with the value 2
C20_Witness ==
  \E i \in 1..Len(handles) :
    /\ has_sent(i)
    /\ handles[i].batch = <<(<<59, 50>>), (<<65, 59, 55>>)>>
    /\ DOMAIN handles[i].result = {<<>>, <<65>>}
    /\ handles[i].result[<<>>] = TempStats_new(F(2))

====
